---- MODULE Spec2Model ----
(***************************************************************************)
(* Model of libcylc's Pyro message framing: createMsgHeader,               *)
(* parseMessageHeader and getMessage (message.c), the process-wide         *)
(* Configuration (configuration.c), the client program (socket.c) and the  *)
(* HMAC-SHA1 self test (digest.c).                                         *)
(***************************************************************************)
EXTENDS Integers, Sequences, FiniteSets, TLC

(***************************************************************************)
(* Byte strings are sequences of 0..255.  A C string is the bytes before   *)
(* its terminating NUL.                                                    *)
(***************************************************************************)
RECURSIVE Pow2(_)
Pow2(n) == IF n = 0 THEN 1 ELSE 2 * Pow2(n - 1)

RECURSIVE BitAnd(_, _)
BitAnd(a, b) ==
  IF a = 0 \/ b = 0 THEN 0
  ELSE (a % 2) * (b % 2) + 2 * BitAnd(a \div 2, b \div 2)

RECURSIVE BitOr(_, _)
BitOr(a, b) ==
  IF a = 0 THEN b
  ELSE IF b = 0 THEN a
  ELSE (IF a % 2 = 1 \/ b % 2 = 1 THEN 1 ELSE 0) + 2 * BitOr(a \div 2, b \div 2)

RECURSIVE BitXor(_, _)
BitXor(a, b) ==
  IF a = 0 THEN b
  ELSE IF b = 0 THEN a
  ELSE ((a + b) % 2) + 2 * BitXor(a \div 2, b \div 2)

Zeros(n) == [i \in 1..n |-> 0]

(***************************************************************************)
(* message.h                                                               *)
(***************************************************************************)
_MSG_CONNECT == 1

_MSG_CONNECTOK == 2

_MSG_CONNECTFAIL == 3

_MSG_INVOKE == 4

_MSG_RESULT == 5

_FLAGS_HMAC == 8

PYRO_MAGIC == 13545       \* 0x34e9

PROTOCOL_VERSION == 44

HEADER_SIZE == 38

\* the null pointer; every byte string is a sequence over 0..255
NULL == <<-1>>

MsgTypes == _MSG_CONNECT .. _MSG_RESULT

(***************************************************************************)
(* Inputs of the model.                                                    *)
(***************************************************************************)
MaxBodyLen == 1

Cylc == <<99, 121, 108, 99>>                 \* "cylc", socket.c:34

OtherKey == <<107>>                          \* "k"

Keys == {Cylc, OtherKey}

\* bodies are C strings: "", "a", ...
Bodies == {[i \in 1..n |-> 97] : n \in 0..MaxBodyLen}

\* flags a caller passes: none, HMAC, EXCEPTION|BATCH|bit 12
FlagSets == {0, 8, 4113}

\* sequence numbers a caller passes: 0x0102, 0xffff, 0x10000
SeqNrs == {258, 65535, 65536}

(***************************************************************************)
(* hmac_sha1 (hmac.h): HMAC with SHA-1.  A 32-bit word is the pair of its  *)
(* 16-bit halves <<hi, lo>>.                                               *)
(***************************************************************************)
hmac_size == 20

SHA1BlockSize == 64

\* the n-bit number whose bit i is tt[4*b_i + 2*c_i + d_i + 1], for the bits
\* b_i, c_i, d_i of b, c, d (n a power of two; the range is halved)
RECURSIVE Bitwise(_, _, _, _, _)
Bitwise(tt, b, c, d, n) ==
  IF n = 1 THEN tt[4 * b + 2 * c + d + 1]
  ELSE LET h == n \div 2
           m == Pow2(h)
       IN  Bitwise(tt, b % m, c % m, d % m, h)
           + m * Bitwise(tt, b \div m, c \div m, d \div m, h)

\* truth tables of SHA-1's three functions: (b AND c) OR (NOT b AND d),
\* b XOR c XOR d, and the majority of b, c, d
ChTable == <<0, 1, 0, 1, 0, 0, 1, 1>>

ParityTable == <<0, 1, 1, 0, 1, 0, 0, 1>>

MajTable == <<0, 0, 0, 1, 0, 1, 1, 1>>

WBitwise(tt, x, y, z) ==
  <<Bitwise(tt, x[1], y[1], z[1], 16), Bitwise(tt, x[2], y[2], z[2], 16)>>

\* the sum of five words mod 2^32
WAdd5(a, b, c, d, e) ==
  LET lo == a[2] + b[2] + c[2] + d[2] + e[2]
      hi == a[1] + b[1] + c[1] + d[1] + e[1] + (lo \div 65536)
  IN  <<hi % 65536, lo % 65536>>

WAdd(x, y) == WAdd5(x, y, <<0, 0>>, <<0, 0>>, <<0, 0>>)

\* rotate left by n, 0 < n < 16
WRotSmall(x, n) ==
  <<((x[1] * Pow2(n)) % 65536) + (x[2] \div Pow2(16 - n)),
    ((x[2] * Pow2(n)) % 65536) + (x[1] \div Pow2(16 - n))>>

WRotl(x, n) ==
  IF n < 16 THEN WRotSmall(x, n) ELSE WRotSmall(<<x[2], x[1]>>, n - 16)

SHA1F(t, b, c, d) ==
  IF t < 20 THEN WBitwise(ChTable, b, c, d)
  ELSE IF t >= 40 /\ t < 60 THEN WBitwise(MajTable, b, c, d)
  ELSE WBitwise(ParityTable, b, c, d)

\* a variant of SHA1K with the first constant in every round
SHA1KFirst(t) == <<23170, 31129>>

SHA1K(t) ==
  IF t < 20 THEN <<23170, 31129>>        \* 0x5A827999
  ELSE IF t < 40 THEN <<28377, 60321>>   \* 0x6ED9EBA1
  ELSE IF t < 60 THEN <<36635, 48348>>   \* 0x8F1BBCDC
  ELSE <<51810, 49622>>                  \* 0xCA62C1D6

SHA1Init ==
  << <<26437, 8961>>,    \* 0x67452301
     <<61389, 43913>>,   \* 0xEFCDAB89
     <<39098, 56574>>,   \* 0x98BADCFE
     <<4146, 21622>>,    \* 0x10325476
     <<50130, 57840>> >> \* 0xC3D2E1F0

\* the 16 big-endian words of a 64-byte block
SHA1Words(block) ==
  [i \in 1..16 |-> <<block[4 * i - 3] * 256 + block[4 * i - 2],
                     block[4 * i - 1] * 256 + block[4 * i]>>]

\* the schedule word of round t, from win: the block's words while t < 16,
\* afterwards the 16 schedule words before it
SHA1W(t, win) ==
  IF t < 16 THEN win[t + 1]
  ELSE WRotl(WBitwise(ParityTable, WBitwise(ParityTable, win[14], win[9], win[3]),
                      win[1], <<0, 0>>), 1)

\* one round on s = <<a, b, c, d, e, win>>
SHA1Step(t, s) ==
  LET wt == SHA1W(t, s[6])
  IN  <<WAdd5(WRotl(s[1], 5), SHA1F(t, s[2], s[3], s[4]), s[5], wt, SHA1K(t)),
        s[1], WRotl(s[2], 30), s[3], s[4],
        IF t < 16 THEN s[6] ELSE Append(Tail(s[6]), wt)>>

\* s after rounds lo .. hi-1.  The range is halved and the quantifier binds
\* v to the value after the first half.
RECURSIVE SHA1Rounds(_, _, _)
SHA1Rounds(lo, hi, s) ==
  IF hi = lo THEN s
  ELSE IF hi = lo + 1 THEN SHA1Step(lo, s)
  ELSE LET mid == (lo + hi) \div 2
       IN  CHOOSE r \in {SHA1Rounds(mid, hi, v) : v \in {SHA1Rounds(lo, mid, s)}} : TRUE

SHA1Compress(h, block) ==
  LET s == SHA1Rounds(0, 80, <<h[1], h[2], h[3], h[4], h[5], SHA1Words(block)>>)
  IN  <<WAdd(h[1], s[1]), WAdd(h[2], s[2]), WAdd(h[3], s[3]),
        WAdd(h[4], s[4]), WAdd(h[5], s[5])>>

\* message, 0x80, zero fill to 56 mod 64, then the bit length as 64 bits
SHA1Pad(m) ==
  LET n    == Len(m)
      fill == (119 - (n % 64)) % 64
      bits == n * 8
  IN  m \o <<128>> \o Zeros(fill) \o Zeros(4)
        \o <<(bits \div 16777216) % 256, (bits \div 65536) % 256,
             (bits \div 256) % 256, bits % 256>>

RECURSIVE SHA1Blocks(_, _)
SHA1Blocks(h, p) ==
  IF Len(p) = 0 THEN h
  ELSE SHA1Blocks(SHA1Compress(h, SubSeq(p, 1, SHA1BlockSize)),
                  SubSeq(p, SHA1BlockSize + 1, Len(p)))

\* the four bytes of a word, most significant first
WBytes(x) == <<x[1] \div 256, x[1] % 256, x[2] \div 256, x[2] % 256>>

SHA1(m) ==
  LET h == SHA1Blocks(SHA1Init, SHA1Pad(m))
  IN  WBytes(h[1]) \o WBytes(h[2]) \o WBytes(h[3]) \o WBytes(h[4]) \o WBytes(h[5])

\* the block-sized key: a longer key is hashed first, a shorter one
\* zero-filled
HMACKey(key) ==
  LET Fill(k) == k \o Zeros(SHA1BlockSize - Len(k))
  IN  IF Len(key) > SHA1BlockSize
      THEN CHOOSE r \in {Fill(k) : k \in {SHA1(key)}} : TRUE
      ELSE Fill(key)

\* H((K0 xor opad) || H((K0 xor ipad) || text)); the quantifier binds k to
\* the value of the block-sized key
HMAC_SHA1(key, in) ==
  LET Pad(k, c) == [i \in 1..SHA1BlockSize |-> BitXor(k[i], c)]
  IN  CHOOSE r \in {SHA1(Pad(k, 92) \o SHA1(Pad(k, 54) \o in)) : k \in {HMACKey(key)}} : TRUE

\* "(S'report'\np1\nS'get_report'\np2\n(S'm214089'\np3\ntp4\n(dp5\ntp6\n."
request_message ==
  <<40, 83, 39, 114, 101, 112, 111, 114, 116, 39, 10, 112, 49, 10, 83, 39,
    103, 101, 116, 95, 114, 101, 112, 111, 114, 116, 39, 10, 112, 50, 10, 40,
    83, 39, 109, 50, 49, 52, 48, 56, 57, 39, 10, 112, 51, 10, 116, 112, 52,
    10, 40, 100, 112, 53, 10, 116, 112, 54, 10, 46>>

\* int hmac_sha1(key, keylen, in, inlen, resbuf): the 20 bytes left in resbuf
hmac_sha1(key, in) == HMAC_SHA1(key, in)


\* hmac_sha1's return value: 0 on success, and the computation cannot fail
hmac_sha1_return(key, in) == 0

(***************************************************************************)
(* configuration.c                                                         *)
(***************************************************************************)
\* setConfig: the key's bytes up to its NUL, and their number
setConfig(key) == [hmac_key |-> key, keyLen |-> Len(key)]

\* Configuration config; a global, zero-initialised
NoConfig == [hmac_key |-> NULL, keyLen |-> 0]

(***************************************************************************)
(* message.c                                                               *)
(***************************************************************************)
\* (unsigned char) x
UChar(x) == x % 256

\* strlen of the buffer: the bytes before the first NUL.  A buffer with no
\* NUL is read past its end, and the result is oob, whatever the memory
\* behind it makes of it (at least the buffer's size).
strlen(buf, oob) ==
  IF \E i \in 1..Len(buf) : buf[i] = 0
  THEN (CHOOSE i \in 1..Len(buf) : buf[i] = 0 /\ \A j \in 1..(i - 1) : buf[j] # 0) - 1
  ELSE oob

\* a variant of createMsgHeaderExits that lets 0x10000 through
createMsgHeaderExitsLate(sequenceNr) == sequenceNr > 65536

\* createMsgHeader exits before it writes the header
createMsgHeaderExits(sequenceNr) == sequenceNr > 65535

\* the 38 bytes createMsgHeader leaves in header, for data a C string
\* (dataLen is its strlen)
createMsgHeader(msgtype, data, flags, sequenceNr, cfg) ==
  LET dataLen  == Len(data)
      flags1   == IF cfg.hmac_key # NULL THEN BitOr(flags, _FLAGS_HMAC) ELSE flags
      bodyhmac == IF cfg.hmac_key # NULL
                  THEN hmac_sha1(cfg.hmac_key, data)
                  ELSE Zeros(hmac_size)
      headerchecksum ==
        msgtype + PROTOCOL_VERSION + dataLen + flags1 + sequenceNr + PYRO_MAGIC
  IN  <<80, 89, 82, 79,                                      \* 'P' 'Y' 'R' 'O'
        UChar(PROTOCOL_VERSION \div 256), UChar(PROTOCOL_VERSION),
        UChar(msgtype \div 256), UChar(msgtype),
        UChar(flags1 \div 256), UChar(flags1),
        UChar(sequenceNr \div 256), UChar(sequenceNr),
        UChar(dataLen \div 16777216), UChar(dataLen \div 65536),
        UChar(dataLen \div 256), UChar(dataLen),
        UChar(headerchecksum \div 256), UChar(headerchecksum)>>
      \o bodyhmac

\* the int assembled from four bytes, most significant first
Int32(b1, b2, b3, b4) ==
  (IF b1 >= 128 THEN b1 - 256 ELSE b1) * 16777216 + b2 * 65536 + b3 * 256 + b4

NoHeader == [type |-> 0, flags |-> 0, sequence |-> 0, datasize |-> 0, hmac |-> <<>>]

\* status "ok" and the MessageHeader, or the exit taken
parseMessageHeader(headerdata, oob) ==
  IF headerdata = NULL \/ strlen(headerdata, oob) # HEADER_SIZE
  THEN [status |-> "size mismatch", header |-> NoHeader]
  ELSE
    LET version == headerdata[5] * 256 + headerdata[6]
        h == [type     |-> headerdata[7] * 256 + headerdata[8],
              flags    |-> headerdata[9] * 256 + headerdata[10],
              sequence |-> headerdata[11] * 256 + headerdata[12],
              datasize |-> Int32(headerdata[13], headerdata[14],
                                 headerdata[15], headerdata[16]),
              hmac     |-> SubSeq(headerdata, 19, HEADER_SIZE)]
        \* (sum) & 0xffff: only the low 16 bits of every term count
        currentchecksum == (h.type + version + (h.datasize % 65536) + h.flags
                            + h.sequence + PYRO_MAGIC) % 65536
        headerchecksum  == headerdata[17] * 256 + headerdata[18]
    IN  IF headerdata[1] # 80 \/ headerdata[2] # 89 \/ headerdata[3] # 82
           \/ headerdata[4] # 79 \/ version # PROTOCOL_VERSION
        THEN [status |-> "invalid msg or version", header |-> NoHeader]
        ELSE IF currentchecksum # headerchecksum
        THEN [status |-> "checksum mismatch", header |-> NoHeader]
        ELSE [status |-> "ok", header |-> h]

NoMessage == [type |-> 0, flags |-> 0, sequence |-> 0, data |-> <<>>]

\* memcmp(a, b, n) == 0
memcmpEqual(a, b) == a = b

\* the check of the received digest, if (! memcmp(...)): TRUE when
\* getMessage exits with "message hmac mismatch"
hmacRejected(headerhmac, bodyhmac) == memcmpEqual(headerhmac, bodyhmac)

\* getMessage on the header bytes and the body bytes that read() delivered.
\* msg.data is an uninitialised pointer when memcpy writes through it: the
\* write either faults (ub = "fault") or lands somewhere (ub = "lands").
getMessage(headerdata, data, requiredMsgType, cfg, oob, ub) ==
  LET p        == parseMessageHeader(headerdata, oob)
      header   == p.header
      flagSet  == BitAnd(header.flags, _FLAGS_HMAC) # 0
      keySet   == cfg.hmac_key # NULL
  IN  IF p.status # "ok"
      THEN [status |-> p.status, msg |-> NoMessage]
      ELSE IF requiredMsgType # 0 /\ header.type # requiredMsgType
      THEN [status |-> "invalid msg type", msg |-> NoMessage]
      ELSE IF flagSet /\ keySet
              /\ hmacRejected(header.hmac, hmac_sha1(cfg.hmac_key, data))
      THEN [status |-> "hmac mismatch", msg |-> NoMessage]
      ELSE IF ~(flagSet /\ keySet) /\ flagSet # keySet
      THEN [status |-> "hmac key config not symmetric", msg |-> NoMessage]
      ELSE IF ub = "fault"
      THEN [status |-> "fault", msg |-> NoMessage]
      ELSE [status |-> "ok",
            msg |-> [type |-> header.type, flags |-> header.flags,
                     sequence |-> header.sequence,
                     data |-> SubSeq(data, 1, IF Len(data) < hmac_size
                                              THEN Len(data) ELSE hmac_size)]]

(***************************************************************************)
(* socket.c and digest.c: the data of the two programs                     *)
(***************************************************************************)
\* the two body bytes of the server's record ("expect 40": 38 + 2), "ok"
OkBody == <<111, 107>>

\* what a Pyro server puts on the connection: a header in the layout
\* createMsgHeader writes, then the body
ServerRecord(msgtype, cfg) == createMsgHeader(msgtype, OkBody, 0, 0, cfg) \o OkBody

ServerRecords ==
  {ServerRecord(t, cfg) : t \in MsgTypes, cfg \in {NoConfig, setConfig(Cylc)}}

\* the message type in the bytes of a record
RecordType(bytes) == bytes[7] * 256 + bytes[8]

Jefe == <<74, 101, 102, 101>>                \* "Jefe"

\* "what do ya want for nothing?"
JefeData ==
  <<119, 104, 97, 116, 32, 100, 111, 32, 121, 97, 32, 119, 97, 110, 116, 32,
    102, 111, 114, 32, 110, 111, 116, 104, 105, 110, 103, 63>>

reference ==
  <<239, 252, 223, 106, 229, 235, 47, 162, 210, 116, 22, 213, 241, 132, 223,
    156, 37, 154, 124, 121>>

\* keys and data the self test is run on: its own pair, and others (the
\* empty key, a key longer than a SHA-1 block)
DigestKeys == {Jefe, Cylc, OtherKey, <<>>, request_message \o request_message}

DigestData == {JefeData, <<>>, <<97>>, <<97, 97>>, request_message, Cylc, Jefe}

(***************************************************************************)
(* State.  Three programs are modelled, one specification each:            *)
(*  - Spec: a sending process builds a header with createMsgHeader; the    *)
(*    transport delivers it, possibly damaged, to a receiving process      *)
(*    that calls parseMessageHeader or getMessage;                         *)
(*  - SpecSession: main of socket.c;                                       *)
(*  - SpecDigest: main of digest.c.                                        *)
(***************************************************************************)
VARIABLES
  pc,          \* "start", "built", "exited", "parsed", "received"; "idle"
  config,      \* the Configuration global of the sender and of the receiver
  args,        \* the arguments of the createMsgHeader call
  msgheader,   \* the sender's header buffer, <<>> until it is written
  rcvheader,   \* the header bytes the receiver was given
  flip,        \* the bit of the header the transport inverted, -1 for none
  rcvbody,     \* the body bytes read() delivered to getMessage
  required,    \* getMessage's requiredMsgType
  result,      \* the outcome of parseMessageHeader or getMessage
  mainpc,      \* socket.c: position of main; "return0", "return1" at its end
  record,      \* socket.c: what the server put on the connection
  buffer,      \* socket.c: the bytes read() left in buffer
  nread,       \* socket.c: i, the value read() returned
  request_header,  \* socket.c: the request header main builds
  digestpc,    \* digest.c: position of main
  dkey,        \* digest.c: key
  ddata,       \* digest.c: data
  ddigest,     \* digest.c: digest
  dstatus      \* digest.c: main's return value, -1 while it runs

codecVars == <<pc, config, args, msgheader, rcvheader, flip, rcvbody, required, result>>

sessionVars == <<mainpc, record, buffer, nread, request_header>>

digestVars == <<digestpc, dkey, ddata, ddigest, dstatus>>

vars == <<codecVars, sessionVars, digestVars>>

NoArgs == [msgtype |-> 0, data |-> <<>>, flags |-> 0, sequenceNr |-> 0]

NoResult == [status |-> "none", header |-> NoHeader, msg |-> NoMessage]

CodecInit ==
  /\ pc = "start"
  /\ config = [sender |-> NoConfig, receiver |-> NoConfig]
  /\ args = NoArgs
  /\ msgheader = <<>>
  /\ rcvheader = <<>>
  /\ flip = -1
  /\ rcvbody = <<>>
  /\ required = 0
  /\ result = NoResult

\* no sender and no receiver runs
CodecIdle ==
  /\ pc = "idle"
  /\ config = [sender |-> NoConfig, receiver |-> NoConfig]
  /\ args = NoArgs
  /\ msgheader = <<>>
  /\ rcvheader = <<>>
  /\ flip = -1
  /\ rcvbody = <<>>
  /\ required = 0
  /\ result = NoResult

SessionIdle ==
  /\ mainpc = "idle" /\ record = <<>> /\ buffer = <<>> /\ nread = 0
  /\ request_header = <<>>

DigestIdle ==
  /\ digestpc = "idle" /\ dkey = <<>> /\ ddata = <<>> /\ ddigest = <<>> /\ dstatus = -1

(***************************************************************************)
(* The codec: message.c and configuration.c                                *)
(***************************************************************************)
\* the sender's or the receiver's start-up call of setConfig
SetConfig(p, k) ==
  /\ \/ p = "sender" /\ pc = "start"
     \/ p = "receiver" /\ pc = "built"
  /\ config[p] = NoConfig
  /\ config' = [config EXCEPT ![p] = setConfig(k)]
  /\ UNCHANGED <<pc, args, msgheader, rcvheader, flip, rcvbody, required, result>>
  /\ UNCHANGED <<sessionVars, digestVars>>

\* createMsgHeader(msgtype, data, flags, sequenceNr, header)
CreateMsgHeader(msgtype, data, flags, sequenceNr) ==
  /\ pc = "start"
  /\ args' = [msgtype |-> msgtype, data |-> data, flags |-> flags,
              sequenceNr |-> sequenceNr]
  /\ IF createMsgHeaderExits(sequenceNr)
     THEN pc' = "exited" /\ msgheader' = msgheader
     ELSE /\ pc' = "built"
          /\ msgheader' = createMsgHeader(msgtype, data, flags, sequenceNr, config.sender)
  /\ UNCHANGED <<config, rcvheader, flip, rcvbody, required, result>>
  /\ UNCHANGED <<sessionVars, digestVars>>

\* the header with bit n (0 .. 8*HEADER_SIZE-1, bit 0 the low bit of the
\* first byte) inverted
FlipBit(h, n) ==
  [h EXCEPT ![(n \div 8) + 1] = BitXor(h[(n \div 8) + 1], Pow2(n % 8))]

\* a header of some other protocol: no NUL byte in it
ForeignHeader == [i \in 1..HEADER_SIZE |-> 80]

\* parseMessageHeader on the header as sent, with one bit inverted, or on
\* a foreign one.  It does not read config: the call is taken from a
\* receiver that has set none.
ParseMessageHeader(hd, n, oob) ==
  /\ pc = "built"
  /\ config.receiver = NoConfig
  /\ rcvheader' = hd
  /\ flip' = n
  /\ LET p == parseMessageHeader(hd, oob)
     IN  result' = [NoResult EXCEPT !.status = p.status, !.header = p.header]
  /\ pc' = "parsed"
  /\ UNCHANGED <<config, args, msgheader, rcvbody, required>>
  /\ UNCHANGED <<sessionVars, digestVars>>

\* what read() can deliver for a body d: all of it, a prefix, the body
\* with its last byte changed, or the body and a byte of what follows
Delivered(d) ==
  {SubSeq(d, 1, n) : n \in 0..Len(d)}
    \cup {[d EXCEPT ![i] = 98] : i \in {Len(d)} \ {0}}
    \cup {d \o <<97>>}

\* getMessage(sockfd, requiredMsgType) on the header as sent
GetMessage(data, requiredMsgType, oob, ub) ==
  /\ pc = "built"
  /\ rcvheader' = msgheader
  /\ flip' = -1
  /\ rcvbody' = data
  /\ required' = requiredMsgType
  /\ LET g == getMessage(msgheader, data, requiredMsgType, config.receiver, oob, ub)
     IN  result' = [NoResult EXCEPT !.status = g.status, !.msg = g.msg]
  /\ pc' = "received"
  /\ UNCHANGED <<config, args, msgheader>>
  /\ UNCHANGED <<sessionVars, digestVars>>

Init == CodecInit /\ SessionIdle /\ DigestIdle

Next ==
  \/ \E p \in {"sender", "receiver"}, k \in Keys : SetConfig(p, k)
  \/ \E t \in MsgTypes, d \in Bodies, f \in FlagSets, q \in SeqNrs :
       CreateMsgHeader(t, d, f, q)
  \/ \E oob \in {HEADER_SIZE, HEADER_SIZE + 1} :
       \/ ParseMessageHeader(msgheader, -1, oob)
       \/ \E n \in 0..(8 * HEADER_SIZE - 1) : ParseMessageHeader(FlipBit(msgheader, n), n, oob)
       \/ ParseMessageHeader(ForeignHeader, -1, oob)
  \/ \E d \in Delivered(args.data), t \in {0} \cup MsgTypes,
        oob \in {HEADER_SIZE, HEADER_SIZE + 1}, ub \in {"fault", "lands"} :
       GetMessage(d, t, oob, ub)

Spec == Init /\ [][Next]_vars

(***************************************************************************)
(* socket.c: main                                                          *)
(***************************************************************************)
SessionInit ==
  /\ mainpc = "start" /\ record = <<>> /\ buffer = <<>> /\ nread = 0
  /\ request_header = <<>>
  /\ CodecIdle /\ DigestIdle

\* setConfig("cylc")
MainSetConfig ==
  /\ mainpc = "start"
  /\ config' = [config EXCEPT !.sender = setConfig(Cylc)]
  /\ mainpc' = "configured"
  /\ UNCHANGED <<pc, args, msgheader, rcvheader, flip, rcvbody, required, result>>
  /\ UNCHANGED <<record, buffer, nread, request_header, digestVars>>

\* gethostbyname("localhost"): NULL makes main return 1
GetHostByName(ok) ==
  /\ mainpc = "configured"
  /\ mainpc' = IF ok THEN "resolved" ELSE "return1"
  /\ UNCHANGED <<codecVars, record, buffer, nread, request_header, digestVars>>

\* the two calls of socket(): a negative result makes main return 1
Socket(ok) ==
  /\ mainpc \in {"resolved", "socket1"}
  /\ mainpc' = IF ~ok THEN "return1"
               ELSE IF mainpc = "resolved" THEN "socket1" ELSE "socket2"
  /\ UNCHANGED <<codecVars, record, buffer, nread, request_header, digestVars>>

\* connect(): a negative result makes main return 1; otherwise the server
\* answers the connection with rec
Connect(ok, rec) ==
  /\ mainpc = "socket2"
  /\ IF ok THEN mainpc' = "connected" /\ record' = rec
           ELSE mainpc' = "return1" /\ record' = record
  /\ UNCHANGED <<codecVars, buffer, nread, request_header, digestVars>>

\* i = read(sockfd, buffer, BUFSIZE): n bytes of the record, 0 at end of
\* file, -1 on error.  The bytes are printed, and nothing else is done
\* with them.
Read(n) ==
  /\ mainpc = "connected"
  /\ nread' = n
  /\ buffer' = SubSeq(record, 1, n)
  /\ mainpc' = "got"
  /\ UNCHANGED <<codecVars, record, request_header, digestVars>>

\* createMsgHeader(_MSG_INVOKE, request_message, _FLAGS_HMAC, 0, request_header)
BuildRequest ==
  /\ mainpc = "got"
  /\ IF createMsgHeaderExits(0)
     THEN mainpc' = "exited" /\ request_header' = request_header
     ELSE /\ mainpc' = "request"
          /\ request_header' =
               createMsgHeader(_MSG_INVOKE, request_message, _FLAGS_HMAC, 0, config.sender)
  /\ UNCHANGED <<codecVars, record, buffer, nread, digestVars>>

\* close(sockfd); return 0
Close ==
  /\ mainpc = "request"
  /\ mainpc' = "return0"
  /\ UNCHANGED <<codecVars, record, buffer, nread, request_header, digestVars>>

SessionNext ==
  \/ MainSetConfig
  \/ \E ok \in BOOLEAN : GetHostByName(ok)
  \/ \E ok \in BOOLEAN : Socket(ok)
  \/ \E ok \in BOOLEAN, rec \in ServerRecords : Connect(ok, rec)
  \/ \E n \in {-1, 0, HEADER_SIZE, Len(record)} : Read(n)
  \/ BuildRequest
  \/ Close

SpecSession == SessionInit /\ [][SessionNext]_vars

(***************************************************************************)
(* digest.c: main, on its own key and data and on others                   *)
(***************************************************************************)
DigestInit ==
  /\ digestpc = "start"
  /\ dkey \in DigestKeys
  /\ ddata \in DigestData
  /\ ddigest = <<>>
  /\ dstatus = -1
  /\ CodecIdle /\ SessionIdle

\* if (hmac_sha1(key, keyLen, data, dataLen, digest) != 0) return 1
DigestCall ==
  /\ digestpc = "start"
  /\ ddigest' = hmac_sha1(dkey, ddata)
  /\ IF hmac_sha1_return(dkey, ddata) # 0
     THEN digestpc' = "done" /\ dstatus' = 1
     ELSE digestpc' = "called" /\ dstatus' = dstatus
  /\ UNCHANGED <<codecVars, sessionVars, dkey, ddata>>

\* if (memcmp(reference, digest, 20) != 0) return 1; else return 0
DigestCompare ==
  /\ digestpc = "called"
  /\ dstatus' = IF memcmpEqual(reference, ddigest) THEN 0 ELSE 1
  /\ digestpc' = "done"
  /\ UNCHANGED <<codecVars, sessionVars, dkey, ddata, ddigest>>

DigestNext == DigestCall \/ DigestCompare

SpecDigest == DigestInit /\ [][DigestNext]_vars

(***************************************************************************)
(* The claims                                                              *)
(***************************************************************************)
\* the flags field and the HMAC flag of header bytes h
HeaderFlags(h) == h[9] * 256 + h[10]

HmacFlagSet(h) == BitAnd(HeaderFlags(h), _FLAGS_HMAC) # 0

\* C1: parseMessageHeader on the header createMsgHeader produced, as sent,
\* succeeds and returns the type, the flags as transmitted, the sequence
\* number, the body length and the 20-byte digest that were encoded.
C1_RoundTrip ==
  (pc = "parsed" /\ flip = -1 /\ rcvheader = msgheader) =>
    /\ result.status = "ok"
    /\ result.header.type = args.msgtype
    /\ result.header.flags = HeaderFlags(msgheader)
    /\ result.header.sequence = args.sequenceNr
    /\ result.header.datasize = Len(args.data)
    /\ result.header.hmac = SubSeq(msgheader, 19, HEADER_SIZE)

\* C2: when the received header has the HMAC flag set and the receiver has
\* a key, getMessage (asked for any type) accepts the message if the
\* header's digest is the keyed hash of the received body under the
\* receiver's key, and otherwise exits with the hmac mismatch error.
C2_Authenticated ==
  (pc = "received" /\ required = 0 /\ HmacFlagSet(rcvheader)
     /\ config.receiver # NoConfig) =>
    IF SubSeq(rcvheader, 19, HEADER_SIZE)
         = hmac_sha1(config.receiver.hmac_key, rcvbody)
    THEN result.status = "ok"
    ELSE result.status = "hmac mismatch"

\* C3: whenever the header's HMAC flag disagrees with the receiver's
\* configuration (flag set and no key, or flag clear and a key), getMessage
\* on a message of the required type exits with the error of the
\* asymmetric key configuration, and so returns no message.
C3_ModeMismatch ==
  (pc = "received" /\ required \in {0, args.msgtype}
     /\ HmacFlagSet(rcvheader) # (config.receiver # NoConfig)) =>
    result.status = "hmac key config not symmetric"

\* C4: in every header createMsgHeader produced, the HMAC flag is set if
\* and only if the sender has a key; with a key the digest field is the
\* keyed hash of the body, without one it is 20 zero bytes.
C4_FlagIffSecret ==
  msgheader # <<>> =>
    /\ HmacFlagSet(msgheader) <=> (config.sender # NoConfig)
    /\ config.sender # NoConfig =>
         SubSeq(msgheader, 19, HEADER_SIZE) = hmac_sha1(config.sender.hmac_key, args.data)
    /\ config.sender = NoConfig =>
         SubSeq(msgheader, 19, HEADER_SIZE) = Zeros(hmac_size)

\* C5: parseMessageHeader on a header createMsgHeader produced, with one
\* bit outside the checksum field (bytes 16-17) inverted, exits with the
\* checksum mismatch error.
C5_ChecksumSensitivity ==
  (pc = "parsed" /\ flip >= 0 /\ (flip \div 8) \notin {16, 17}) =>
    result.status = "checksum mismatch"

\* C6: getMessage returns a message only when as many body bytes were
\* received as the header declares, and exits with the error of a
\* truncated body when fewer were received.
C6_BodyLength ==
  pc = "received" =>
    LET declared == Int32(rcvheader[13], rcvheader[14], rcvheader[15], rcvheader[16])
    IN  /\ result.status = "ok" => Len(rcvbody) = declared
        /\ Len(rcvbody) < declared => result.status = "truncated"

\* C7: getMessage asked for a type other than the one received exits with
\* the invalid msg type error, and a message it returns carries the
\* decoded type, flags and sequence number and the received body.
C7_AllChecks ==
  pc = "received" =>
    /\ (required # 0 /\ required # args.msgtype) => result.status = "invalid msg type"
    /\ result.status = "ok" =>
         result.msg = [type |-> args.msgtype, flags |-> HeaderFlags(rcvheader),
                       sequence |-> args.sequenceNr, data |-> rcvbody]

\* C8: a session whose server answered with CONNECT_FAIL fails: main does
\* not go on to the INVOKE request and does not end with success.
C8_Handshake ==
  (nread >= HEADER_SIZE /\ RecordType(buffer) = _MSG_CONNECTFAIL) =>
    mainpc \notin {"request", "return0"}

\* C9: createMsgHeader exits, leaving no header, exactly when the sequence
\* number is greater than 65535, and a header it writes holds the sequence
\* number, in 0..65535, in bytes 10-11, most significant byte first.
C9_SequenceRange ==
  /\ pc = "exited" => (args.sequenceNr > 65535 /\ msgheader = <<>>)
  /\ (pc # "start" /\ args.sequenceNr > 65535) => pc = "exited"
  /\ msgheader # <<>> =>
       /\ args.sequenceNr \in 0..65535
       /\ msgheader[11] = args.sequenceNr \div 256
       /\ msgheader[12] = args.sequenceNr % 256

\* createMsgHeader was called with 65536 and exited without a header
C9_Witness == pc = "exited" /\ args.sequenceNr = 65536 /\ msgheader = <<>>

\* C10: hmac_sha1 returns 0 and leaves 20 bytes that are a function of the
\* key and the data; for "Jefe" and "what do ya want for nothing?" they
\* are ef fc df 6a e5 eb 2f a2 d2 74 16 d5 f1 84 df 9c 25 9a 7c 79, and the
\* self test ends with 0.
C10_Digest ==
  digestpc \in {"called", "done"} =>
    /\ hmac_sha1_return(dkey, ddata) = 0
    /\ Len(ddigest) = hmac_size
    /\ \A i \in 1..hmac_size : ddigest[i] \in 0..255
    /\ digestpc = "called" => ddigest = hmac_sha1(dkey, ddata)
    /\ (dkey = Jefe /\ ddata = JefeData) =>
         /\ ddigest = <<239, 252, 223, 106, 229, 235, 47, 162, 210, 116,
                        22, 213, 241, 132, 223, 156, 37, 154, 124, 121>>
         /\ digestpc = "done" => dstatus = 0

\* the self test ran on its own key and data and ended with 0
C10_Witness ==
  /\ digestpc = "done" /\ dkey = Jefe /\ ddata = JefeData /\ dstatus = 0
  /\ Len(ddigest) = hmac_size

====
